---- MODULE Spec2Model ----
(***************************************************************************)
(* Model of the key-value server in src/kvserver.cpp: the shared LRU cache  *)
(* (class LRUCache), the per-thread PostgreSQL connection (get_connection), *)
(* the three store operations (db_create_or_update, db_read, db_delete) and *)
(* the three routes (/create, /read/<string>, /delete/<string>).            *)
(***************************************************************************)
EXTENDS Integers, Sequences, FiniteSets, TLC

\* ---------------------------------------------------------------- bounds
\* Capacity of the one cache instance.  The server constructs it with 100
\* entries (LRUCache cache(100)); the model runs it with a small capacity.
capacity == 2

\* ------------------------------------------------------------- alphabets
\* A std::string is a tuple of one-character strings: <<"0","7">> is "07".
Digits == <<"0", "1", "2", "3", "4", "5", "6", "7", "8", "9">>

None == "none"

Values == {"a", "b"}

\* ------------------------------------------------- integer <-> string
DigitVal(ch) == (CHOOSE i \in 1..10 : Digits[i] = ch) - 1

IsDigit(ch) == \E i \in 1..10 : Digits[i] = ch

RECURSIVE NatDigits(_)
NatDigits(n) == IF n < 10 THEN <<Digits[n + 1]>>
                ELSE NatDigits(n \div 10) \o <<Digits[(n % 10) + 1]>>

\* std::to_string(long long): the decimal form, no leading zeros, "-" first
\* for a negative number.
to_string(n) == IF n < 0 THEN <<"-">> \o NatDigits(-n) ELSE NatDigits(n)

\* std::stoll(s, &pos): leading white space is skipped, one optional sign is
\* read, then the longest run of decimal digits.  No digit at all throws
\* std::invalid_argument (ok = FALSE).  pos is the number of characters
\* consumed.  (std::out_of_range needs 19 digits or more; the key strings of
\* the model are shorter, so that throw cannot happen here.)
IsSpace(ch) == ch = " "

RECURSIVE CountSpaces(_, _)
CountSpaces(s, i) ==
    IF i <= Len(s) /\ IsSpace(s[i]) THEN 1 + CountSpaces(s, i + 1) ELSE 0

RECURSIVE CountDigits(_, _)
CountDigits(s, i) ==
    IF i <= Len(s) /\ IsDigit(s[i]) THEN 1 + CountDigits(s, i + 1) ELSE 0

RECURSIVE DigitsValue(_, _, _)
DigitsValue(s, from, to) ==
    IF to < from THEN 0
    ELSE 10 * DigitsValue(s, from, to - 1) + DigitVal(s[to])

stoll(s) ==
    LET ws    == CountSpaces(s, 1)
        neg   == ws + 1 <= Len(s) /\ s[ws + 1] = "-"
        sign  == IF ws + 1 <= Len(s) /\ s[ws + 1] \in {"+", "-"} THEN 1 ELSE 0
        first == ws + sign + 1
        nd    == CountDigits(s, first)
        mag   == DigitsValue(s, first, first + nd - 1)
    IN  [ok  |-> nd > 0,
         val |-> IF neg THEN -mag ELSE mag,
         pos |-> ws + sign + nd]

\* str_to_int64(s, out): FALSE on the empty string, on a throw of stoll and
\* when stoll did not consume the whole string.
str_to_int64(s) ==
    IF s = <<>> THEN [ok |-> FALSE, out |-> 0]
    ELSE LET r == stoll(s)
         IN  IF ~r.ok THEN [ok |-> FALSE, out |-> 0]
             ELSE IF r.pos # Len(s) THEN [ok |-> FALSE, out |-> 0]
             ELSE [ok |-> TRUE, out |-> r.val]

\* ------------------------------------------------------------------ state
VARIABLES
    kvcache,      \* LRUCache::kvcache: the list, most recently used first
    kvmap,        \* LRUCache::kvmap: key -> iterator (node) into kvcache
    mtx,          \* LRUCache::mtx: the thread that holds it, None when free
    lastOp,       \* the last call made on the cache and what it returned
    recency,      \* history: the keys in the order of their last use
    lastPut,      \* history: the value of the latest put of each key
    run,          \* history: a get(k) and the new keys inserted right after
    store,        \* the kv_store table: key -> value, None for no row
    now,          \* steady_clock::now(), in seconds
    thread_conn,  \* per thread: thread_local PGconn* thread_conn
    last_ping,    \* per thread: thread_local time_point last_ping
    pc,           \* per thread: where its handler stands
    req,          \* per thread: the request being handled
    resp,         \* per thread: the last crow::response returned
    trace,        \* history, per thread: the calls of its last request
    rd,           \* history, per thread: a flag of the request under way
    deleted,      \* history: keys deleted with success, no create of them since
    fresh,        \* history: key -> value a successful create left cached
    server_up,    \* the PostgreSQL server accepts connections
    alive,        \* per thread: the server's end of its connection is valid
    held,         \* per thread: the PGconn object thread_conn points to, 0 for none
    pgconns,      \* the PGconn objects allocated and not yet PQfinish'ed
    calls,        \* history, per thread: the libpq calls of its last get_connection
    outcome,      \* per thread: how its last db operation ended
    crashed       \* the process was aborted

cacheVars  == <<kvcache, kvmap, mtx>>
histVars   == <<lastOp, recency, lastPut, run>>
connVars   == <<now, thread_conn, last_ping>>
pqVars     == <<server_up, alive, held, pgconns, calls, outcome, crashed>>
reqVars    == <<store, pc, req, resp, trace, rd, deleted, fresh>>
serverVars == <<store, connVars, pc, req, resp, trace, rd, deleted, fresh, pqVars>>
vars       == <<cacheVars, histVars, serverVars>>

\* ------------------------------------------------------------ LRUCache
\* A list node is [node, first, second]: its identity (what an iterator
\* refers to) and the pair<string, string> it holds.
Cache == [kvcache |-> kvcache, kvmap |-> kvmap]

EmptyMap == [k \in {} |-> 0]

EmptyCache == [kvcache |-> <<>>, kvmap |-> EmptyMap]

Nodes(list) == {list[i].node : i \in 1..Len(list)}

\* The node a push_front allocates: any node not in the list; the least one.
NewNode(list) ==
    CHOOSE n \in 1..(Len(list) + 1) :
        /\ n \notin Nodes(list)
        /\ \A m \in 1..(Len(list) + 1) : m \notin Nodes(list) => n <= m

\* list::erase(it)
Erase(list, it) == SelectSeq(list, LAMBDA e : e.node # it)

\* list::push_front({key, value}); the new begin() is the pushed node.
PushFront(list, key, value) ==
    <<[node |-> NewNode(list), first |-> key, second |-> value]>> \o list

\* it->second->second.  The iterator of a node that is no longer in the list
\* dangles; the model gives such a read the value "dangling".
Deref(list, it) ==
    IF it \in Nodes(list)
    THEN (CHOOSE e \in {list[i] : i \in 1..Len(list)} : e.node = it).second
    ELSE "dangling"

\* kvmap[key] = it
MapSet(m, key, it) ==
    [k \in (DOMAIN m) \cup {key} |-> IF k = key THEN it ELSE m[k]]

\* kvmap.erase(key)
MapErase(m, key) == [k \in (DOMAIN m) \ {key} |-> m[k]]

\* Mutant: the size test is off by one.
Evict_OffByOne(c) ==
    IF Len(c.kvcache) > capacity + 1
    THEN [kvcache |-> SubSeq(c.kvcache, 1, Len(c.kvcache) - 1),
          kvmap   |-> MapErase(c.kvmap, c.kvcache[Len(c.kvcache)].first)]
    ELSE c

\* Mutant: the entry at the front is dropped instead of the one at the back.
Evict_PopFront(c) ==
    IF Len(c.kvcache) > capacity
    THEN [kvcache |-> Tail(c.kvcache),
          kvmap   |-> MapErase(c.kvmap, Head(c.kvcache).first)]
    ELSE c

\* put, lines 33-37: drop the back of the list when it grew past capacity.
Evict(c) ==
    IF Len(c.kvcache) > capacity
    THEN LET last == c.kvcache[Len(c.kvcache)]
         IN  [kvcache |-> SubSeq(c.kvcache, 1, Len(c.kvcache) - 1),
              kvmap   |-> MapErase(c.kvmap, last.first)]
    ELSE c

\* Mutant: the old node of an existing key is not erased.
put_NoEraseOld(c, key, value) ==
    LET pushed == PushFront(c.kvcache, key, value)
    IN  Evict([kvcache |-> pushed,
               kvmap   |-> MapSet(c.kvmap, key, Head(pushed).node)])

\* LRUCache::put
put(c, key, value) ==
    LET erased == IF key \in DOMAIN c.kvmap
                  THEN Erase(c.kvcache, c.kvmap[key])
                  ELSE c.kvcache
        pushed == PushFront(erased, key, value)
    IN  Evict([kvcache |-> pushed,
               kvmap   |-> MapSet(c.kvmap, key, Head(pushed).node)])

\* Mutant: a hit returns the value and leaves the list as it is.
get_NoRefresh(c, key) ==
    IF key \notin DOMAIN c.kvmap
    THEN [hit |-> FALSE, value |-> None, cache |-> c]
    ELSE [hit |-> TRUE, value |-> Deref(c.kvcache, c.kvmap[key]), cache |-> c]

\* Mutant: a hit moves the entry to the back of the list.
get_PushBack(c, key) ==
    IF key \notin DOMAIN c.kvmap
    THEN [hit |-> FALSE, value |-> None, cache |-> c]
    ELSE LET value  == Deref(c.kvcache, c.kvmap[key])
             erased == Erase(c.kvcache, c.kvmap[key])
             n      == NewNode(erased)
         IN  [hit   |-> TRUE,
              value |-> value,
              cache |-> [kvcache |-> erased \o
                                     <<[node |-> n, first |-> key, second |-> value]>>,
                         kvmap   |-> MapSet(c.kvmap, key, n)]]

\* LRUCache::get: [hit, value, cache] are the bool returned, the out
\* parameter (untouched on a miss) and the cache after the call.
get(c, key) ==
    IF key \notin DOMAIN c.kvmap
    THEN [hit |-> FALSE, value |-> None, cache |-> c]
    ELSE LET value  == Deref(c.kvcache, c.kvmap[key])
             pushed == PushFront(Erase(c.kvcache, c.kvmap[key]), key, value)
         IN  [hit   |-> TRUE,
              value |-> value,
              cache |-> [kvcache |-> pushed,
                         kvmap   |-> MapSet(c.kvmap, key, Head(pushed).node)]]

\* LRUCache::remove
remove(c, key) ==
    IF key \notin DOMAIN c.kvmap
    THEN c
    ELSE [kvcache |-> Erase(c.kvcache, c.kvmap[key]),
          kvmap   |-> MapErase(c.kvmap, key)]

\* ------------------------------------------------------- request inputs
Workers == {"w1", "w2"}

\* The <string> of /read/<string> and /delete/<string>.
KeyPaths == {<<"1">>, <<"0", "1">>, <<"x">>}

\* The keys of kv_store the requests of the model can name.
IntKeys == {1}

\* json values: a string, an integer, a float (whole and tenths) or null.
JStr(sv)      == [t |-> "string", v |-> sv]
JInt(n)       == [t |-> "integer", v |-> n]
JFloat(w, f)  == [t |-> "float", v |-> <<w, f>>]
JNull         == [t |-> "null", v |-> None]

\* The bodies of POST /create the model sends: objects with "key" and
\* "value", the key an integer or a string.
CreateBodies ==
    {[kind |-> "object", key |-> JInt(1), value |-> JStr("a")],
     [kind |-> "object", key |-> JStr(<<"0", "1">>), value |-> JStr("b")]}

\* to_string_json_value: a string is taken as it is, an integer goes through
\* std::to_string, anything else is dumped.
to_string_json_value(j) ==
    IF j.t = "string" THEN j.v
    ELSE IF j.t = "integer" THEN to_string(j.v)
    ELSE "dump"

\* json_to_int64: an integer as it is, a string through stoll (the whole
\* string must be consumed), a float cast to int64_t (truncated); FALSE for
\* anything else.
json_to_int64(j) ==
    IF j.t = "integer" THEN [ok |-> TRUE, out |-> j.v]
    ELSE IF j.t = "string" THEN str_to_int64(j.v)
    ELSE IF j.t = "float" THEN [ok |-> TRUE, out |-> j.v[1]]
    ELSE [ok |-> FALSE, out |-> 0]

\* ------------------------------------------------------- get_connection
\* thread_conn is "NULL", or a PGconn whose PQstatus is "OK" or "BAD".
HealthInterval == 5

\* PQconnectdb + the status test that follows it (lines 76-83, 96-103): a
\* connection that did not come up is finished and the pointer nulled.
Connect(connectOk) == IF connectOk THEN "OK" ELSE "NULL"

\* get_connection for one thread: conn and last are its thread_conn and
\* last_ping, t the clock, connectOk whether PQconnectdb would succeed and
\* pingOk whether "SELECT 1" would.  ret is FALSE for a nullptr return.
get_connection(conn, last, t, connectOk, pingOk) ==
    IF conn = "NULL" \/ conn # "OK"
    THEN LET c == Connect(connectOk)
         IN  IF c = "NULL"
             THEN [ret |-> FALSE, conn |-> "NULL", last_ping |-> last]
             ELSE [ret |-> TRUE, conn |-> c, last_ping |-> t]
    ELSE IF t - last >= HealthInterval
    THEN IF ~pingOk
         THEN LET c == Connect(connectOk)
              IN  IF c = "NULL"
                  THEN [ret |-> FALSE, conn |-> "NULL", last_ping |-> last]
                  ELSE [ret |-> TRUE, conn |-> c, last_ping |-> t]
         ELSE [ret |-> TRUE, conn |-> conn, last_ping |-> t]
    ELSE [ret |-> TRUE, conn |-> conn, last_ping |-> last]

\* What one call can return: PQconnectdb and "SELECT 1" each succeed or fail.
ConnectionOutcomes(conn, last, t) ==
    {get_connection(conn, last, t, connectOk, pingOk) :
        connectOk \in BOOLEAN, pingOk \in BOOLEAN}

\* ------------------------------------- get_connection, libpq call by call
\* The same function with the libpq objects it handles.  A run state s is
\* what one call of one thread works on: conn and held (PQstatus of
\* thread_conn and the PGconn it points to, 0 for nullptr), last (last_ping),
\* open (the PGconn objects allocated and not finished, of all threads), mine
\* (those this thread allocated), res (the PGresult* of the ping: "null",
\* "live" or "freed"), calls (the libpq calls made so far), peak (the most
\* PGconn objects of this thread open at once) and faults (releases of an
\* object already released, uses of a released object).
RunState(conn, h, last, open) ==
    [conn |-> conn, held |-> h, last |-> last, open |-> open,
     mine |-> IF h = 0 THEN {} ELSE {h}, res |-> "null", calls |-> <<>>,
     peak |-> IF h = 0 THEN 0 ELSE 1, faults |-> {}, ret |-> FALSE]

\* PQconnectdb allocates a PGconn nobody else holds.
NewHandle(open) == CHOOSE h \in 1..(Cardinality(open) + 1) : h \notin open

Max(a, b) == IF a >= b THEN a ELSE b

\* Mutant: PQfinish does not release the object.
PQfinish_Keep(s) ==
    [s EXCEPT !.calls = Append(@, "PQfinish")]

\* PQfinish(thread_conn): the object is closed and freed; the pointer is left
\* as it is.
PQfinish(s) ==
    [s EXCEPT !.open = @ \ {s.held},
              !.mine = @ \ {s.held},
              !.faults = IF s.held \in s.open THEN @ ELSE @ \cup {"PQfinish twice"},
              !.calls = Append(@, "PQfinish")]

\* thread_conn = PQconnectdb(DB_CONNINFO): cres is "ok", "bad" (an object
\* whose status is not CONNECTION_OK) or "null" (no object).
PQconnectdb(s, cres) ==
    IF cres = "null"
    THEN [s EXCEPT !.conn = "NULL", !.held = 0,
                   !.calls = Append(@, "PQconnectdb")]
    ELSE LET h == NewHandle(s.open)
         IN  [s EXCEPT !.conn = IF cres = "ok" THEN "OK" ELSE "BAD",
                       !.held = h,
                       !.open = @ \cup {h},
                       !.mine = @ \cup {h},
                       !.peak = Max(@, Cardinality(s.mine \cup {h})),
                       !.calls = Append(@, "PQconnectdb")]

\* res = PQexec(thread_conn, "SELECT 1"): pres is "ok" (PGRES_TUPLES_OK),
\* "fatal" (a result with another status) or "null" (no result).
PQexec(s, pres) ==
    [s EXCEPT !.res = IF pres = "null" THEN "null" ELSE "live",
              !.faults = IF s.held \in s.open THEN @ ELSE @ \cup {"PQexec on finished"},
              !.calls = Append(@, "PQexec")]

\* PQclear(res) frees the result; res keeps pointing at it.
PQclear(s) ==
    [s EXCEPT !.res = "freed",
              !.faults = IF s.res = "live" THEN @ ELSE @ \cup {"PQclear twice"},
              !.calls = Append(@, "PQclear")]

\* Mutant: a connection that did not come up is tried once more.
CheckedConnect_Retry(s, cres) ==
    LET s1 == PQconnectdb(s, cres)
        s2 == IF s1.held # 0 /\ s1.conn # "OK"
              THEN PQconnectdb([PQfinish(s1) EXCEPT !.conn = "NULL", !.held = 0], cres)
              ELSE IF s1.held = 0 THEN PQconnectdb(s1, cres) ELSE s1
    IN  IF s2.held = 0 \/ s2.conn # "OK"
        THEN LET s3 == IF s2.held # 0
                       THEN [PQfinish(s2) EXCEPT !.conn = "NULL", !.held = 0]
                       ELSE s2
             IN  [s3 EXCEPT !.ret = FALSE]
        ELSE [s2 EXCEPT !.ret = TRUE]

\* Lines 76-83 and again 96-103: PQconnectdb, and when no usable connection
\* came back the object is finished, thread_conn nulled and nullptr returned
\* (ret FALSE); ret TRUE says the caller goes on.
CheckedConnect(s, cres) ==
    LET s1 == PQconnectdb(s, cres)
    IN  IF s1.held = 0 \/ s1.conn # "OK"
        THEN LET s2 == IF s1.held # 0
                       THEN [PQfinish(s1) EXCEPT !.conn = "NULL", !.held = 0]
                       ELSE s1
             IN  [s2 EXCEPT !.ret = FALSE]
        ELSE [s1 EXCEPT !.ret = TRUE]

\* Mutant: the ping waits for more than the interval.
ProbeDue_Late(t, last) == t - last > HealthInterval

\* Line 89: duration_cast<seconds>(now - last_ping).count() >= 5.
ProbeDue(t, last) == t - last >= HealthInterval

\* get_connection, lines 68-110, on run state s at time t.
get_connection_run(s, t, cres, pres) ==
    IF s.held = 0 \/ s.conn # "OK"
    THEN LET s1 == IF s.held # 0
                   THEN [PQfinish(s) EXCEPT !.conn = "NULL", !.held = 0]
                   ELSE s
             s2 == CheckedConnect(s1, cres)
         IN  IF ~s2.ret THEN s2 ELSE [s2 EXCEPT !.last = t]
    ELSE IF ProbeDue(t, s.last)
    THEN LET s1 == PQexec(s, pres)
         IN  IF s1.res = "null" \/ pres # "ok"
             THEN LET s2 == IF s1.res # "null" THEN PQclear(s1) ELSE s1
                      s3 == CheckedConnect(PQfinish(s2), cres)
                  IN  IF ~s3.ret THEN s3
                      ELSE LET s4 == IF s3.res # "null" THEN PQclear(s3) ELSE s3
                           IN  [s4 EXCEPT !.last = t]
             ELSE [PQclear(s1) EXCEPT !.last = t, !.ret = TRUE]
    ELSE [s EXCEPT !.ret = TRUE]

\* -------------------------------------------------------- db operations
\* The PGresult of PQexecParams: "null" (no result: the connection is lost),
\* "fatal" (the server rejected the statement) or "ok".
Results == {"ok", "fatal", "null"}

\* PQstatus of the connection after the statement.
ConnAfter(conn, res) == IF res = "null" THEN "BAD" ELSE conn

\* Mutant: any non-null result counts as success.
db_create_or_update_AnyResult(st, key, value, res) ==
    [done  |-> res # "null",
     store |-> IF res = "ok" THEN [st EXCEPT ![key] = value] ELSE st]

\* db_create_or_update after get_connection: the upsert and its status test.
db_create_or_update(st, key, value, res) ==
    IF res = "null" THEN [done |-> FALSE, store |-> st]
    ELSE IF res = "ok" THEN [done |-> TRUE, store |-> [st EXCEPT ![key] = value]]
    ELSE [done |-> FALSE, store |-> st]

\* Mutant: the number of tuples of the result is not looked at.
db_read_NoTupleCheck(st, key, res) ==
    IF res # "ok" THEN [found |-> FALSE, value |-> None]
    ELSE [found |-> TRUE, value |-> st[key]]

\* db_read after get_connection: the select; found needs PGRES_TUPLES_OK and
\* at least one tuple.
db_read(st, key, res) ==
    IF res = "null" THEN [found |-> FALSE, value |-> None]
    ELSE IF res # "ok" \/ st[key] = None THEN [found |-> FALSE, value |-> None]
    ELSE [found |-> TRUE, value |-> st[key]]

\* Mutant: the count of deleted rows is not looked at.
db_delete_AnyCount(st, key, res) ==
    [done  |-> res = "ok",
     store |-> IF res = "ok" THEN [st EXCEPT ![key] = None] ELSE st]

\* db_delete after get_connection: the delete; done needs PGRES_COMMAND_OK and
\* PQcmdTuples > 0.
db_delete(st, key, res) ==
    IF res = "null" THEN [done |-> FALSE, store |-> st]
    ELSE [done  |-> res = "ok" /\ st[key] # None,
          store |-> IF res = "ok" THEN [st EXCEPT ![key] = None] ELSE st]

\* ------------------------------------------- the cache under direct calls
\* CacheSpec drives the one LRUCache object with arbitrary put, get and
\* remove calls.  Every method holds lock_guard<mutex> for its whole body, so
\* the calls of concurrent threads are a sequence of whole calls.
CacheKeys == {to_string(i) : i \in 1..(capacity + 1)}

NoOp  == [op |-> None, key |-> None, hit |-> FALSE, out |-> None]
NoRun == [key |-> None, val |-> None, n |-> 0]

CachedKeys(list) == {list[i].first : i \in 1..Len(list)}

\* The use of a key makes it the first of the recency history.
Touch(order, key) == <<key>> \o SelectSeq(order, LAMBDA k : k # key)

\* A node identity stands for an address: two states that differ only by a
\* renaming of the nodes are one state of the program.  Canon renames the
\* nodes of the list by their position; an iterator that refers to no node of
\* the list (a dangling one) becomes 0.
Canon(c) ==
    [kvcache |-> [i \in 1..Len(c.kvcache) |->
                    [node |-> i, first |-> c.kvcache[i].first,
                     second |-> c.kvcache[i].second]],
     kvmap   |-> [k \in DOMAIN c.kvmap |->
                    IF c.kvmap[k] \in Nodes(c.kvcache)
                    THEN CHOOSE i \in 1..Len(c.kvcache) :
                            /\ c.kvcache[i].node = c.kvmap[k]
                            /\ \A j \in 1..(i - 1) : c.kvcache[j].node # c.kvmap[k]
                    ELSE 0]]

\* The cache after a whole call that left it as c: the call took the free
\* mutex on entry (lock_guard) and released it on return.
SetCache(c) ==
    /\ mtx = None
    /\ kvcache' = Canon(c).kvcache
    /\ kvmap' = Canon(c).kvmap
    /\ mtx' = None

InitCache ==
    /\ kvcache = <<>>
    /\ kvmap = EmptyMap
    /\ mtx = None
    /\ lastOp = NoOp
    /\ recency = <<>>
    /\ lastPut = [k \in CacheKeys |-> None]
    /\ run = NoRun

CachePut(key, value) ==
    /\ SetCache(put(Cache, key, value))
    /\ lastOp' = [op |-> "put", key |-> key,
                  hit |-> key \in CachedKeys(kvcache), out |-> None]
    /\ recency' = Touch(recency, key)
    /\ lastPut' = [lastPut EXCEPT ![key] = value]
    /\ run' = IF /\ run.key # None
                 /\ key # run.key
                 /\ key \notin CachedKeys(kvcache)
                 /\ run.n < capacity
              THEN [run EXCEPT !.n = @ + 1]
              ELSE NoRun
    /\ UNCHANGED serverVars

CacheGet(key) ==
    LET r == get(Cache, key)
    IN  /\ SetCache(r.cache)
        /\ lastOp' = [op |-> "get", key |-> key, hit |-> r.hit, out |-> r.value]
        /\ recency' = IF r.hit THEN Touch(recency, key) ELSE recency
        /\ run' = IF r.hit THEN [key |-> key, val |-> r.value, n |-> 0] ELSE NoRun
        /\ UNCHANGED <<lastPut, serverVars>>

CacheRemove(key) ==
    /\ SetCache(remove(Cache, key))
    /\ lastOp' = [op |-> "remove", key |-> key,
                  hit |-> key \in CachedKeys(kvcache), out |-> None]
    /\ run' = NoRun
    /\ UNCHANGED <<recency, lastPut, serverVars>>

NextCache ==
    \/ \E key \in CacheKeys, value \in Values : CachePut(key, value)
    \/ \E key \in CacheKeys : CacheGet(key)
    \/ \E key \in CacheKeys : CacheRemove(key)


\* ------------------------------------------------------------ the server
\* Spec runs app.concurrency(threads) worker threads, each handling one
\* request at a time to completion.  A handler is a sequence of steps: the
\* parse (with cache.get for a read), get_connection, the statement, and the
\* cache call.  A cache call is one step: the method holds the lock throughout.
NoReq  == [op |-> None]
NoResp == [code |-> 0, body |-> None]

\* The handler of w returns crow::response(code, body); tr is the history of
\* its calls.  The thread is free for its next request.
Return(w, code, body, tr) ==
    /\ pc' = [pc EXCEPT ![w] = "idle"]
    /\ req' = [req EXCEPT ![w] = NoReq]
    /\ resp' = [resp EXCEPT ![w] = [code |-> code, body |-> body]]
    /\ trace' = [trace EXCEPT ![w] = tr]

\* The handler of w goes on to its next step, with request r.
Goto(w, next, r, tr) ==
    /\ pc' = [pc EXCEPT ![w] = next]
    /\ req' = [req EXCEPT ![w] = r]
    /\ resp' = [resp EXCEPT ![w] = NoResp]
    /\ trace' = [trace EXCEPT ![w] = tr]

\* History: for a read under way, rd[w] says that it began after a delete of
\* its key returned success and that no create of the key upserted or
\* returned since; for a delete under way, that it deleted a row and that no
\* create upserted the key since.  del is deleted after the step and ups the
\* keys the step upserts.
RdAfter(del, ups) ==
    [w \in Workers |->
        IF pc[w] = "idle" THEN FALSE
        ELSE IF req[w].op = "read" THEN rd[w] /\ req[w].key_num \in del
        ELSE IF req[w].op = "delete" THEN rd[w] /\ req[w].key_num \notin ups
        ELSE FALSE]

\* History: what a cache call leaves of fresh.  The entry of a create is gone
\* when its key was put again, removed or evicted.
FreshAfter(c, putKey) ==
    [k \in IntKeys |->
        IF to_string(k) = putKey \/ to_string(k) \notin CachedKeys(c.kvcache)
        THEN None ELSE fresh[k]]

Init ==
    /\ InitCache
    /\ store = [k \in IntKeys |-> None]
    /\ now = 0
    /\ thread_conn = [w \in Workers |-> "NULL"]
    /\ last_ping = [w \in Workers |-> 0]
    /\ pc = [w \in Workers |-> "idle"]
    /\ req = [w \in Workers |-> NoReq]
    /\ resp = [w \in Workers |-> NoResp]
    /\ trace = [w \in Workers |-> <<>>]
    /\ rd = [w \in Workers |-> FALSE]
    /\ deleted = {}
    /\ fresh = [k \in IntKeys |-> None]
    /\ server_up = TRUE
    /\ alive = [w \in Workers |-> FALSE]
    /\ held = [w \in Workers |-> 0]
    /\ pgconns = {}
    /\ calls = [w \in Workers |-> <<>>]
    /\ outcome = [w \in Workers |-> None]
    /\ crashed = FALSE

\* What each route answers when its db operation returns false.
Failure(op) ==
    IF op = "create" THEN [code |-> 500, body |-> "DB Error"]
    ELSE IF op = "read" THEN [code |-> 404, body |-> "Not found"]
    ELSE [code |-> 500, body |-> "Not found"]

\* The get_connection() call that opens db_create_or_update, db_read and
\* db_delete for request r of thread w; a nullptr makes the operation return
\* false.  The call touches nothing but the thread's own connection, so it is
\* one step with the parse before it.
GetConnection(w, r, tr) ==
    \E c \in ConnectionOutcomes(thread_conn[w], last_ping[w], now) :
        /\ thread_conn' = [thread_conn EXCEPT ![w] = c.conn]
        /\ last_ping' = [last_ping EXCEPT ![w] = c.last_ping]
        /\ IF c.ret
           THEN Goto(w, "exec", r, Append(tr, "conn_ok"))
           ELSE Return(w, Failure(r.op).code, Failure(r.op).body,
                       Append(tr, "conn_fail"))

\* POST /create, lines 252-273: the body is parsed, the key converted, the
\* value made a string, and db_create_or_update asks for the connection.
BeginCreate(w, body) ==
    /\ pc[w] = "idle"
    /\ IF body.kind = "empty"
       THEN Return(w, 400, "Empty body", <<"create">>)
            /\ UNCHANGED <<thread_conn, last_ping>>
       ELSE LET k == json_to_int64(body.key)
            IN  IF ~k.ok
                THEN Return(w, 400, "Invalid key (expected integer)", <<"create">>)
                     /\ UNCHANGED <<thread_conn, last_ping>>
                ELSE GetConnection(w, [op |-> "create", key_num |-> k.out,
                                       value |-> to_string_json_value(body.value)],
                                   <<"create">>)
    /\ UNCHANGED <<cacheVars, histVars, store, now, rd, deleted, fresh, pqVars>>

\* Mutant: the read asks for the connection before it looks at the cache.
BeginRead_ConnFirst(w, key_path) ==
    LET r == get(Cache, key_path)
        k == str_to_int64(key_path)
    IN  /\ pc[w] = "idle"
        /\ SetCache(r.cache)
        /\ rd' = [rd EXCEPT ![w] = ~r.hit /\ k.ok /\ k.out \in deleted]
        /\ IF r.hit
           THEN /\ \E c \in ConnectionOutcomes(thread_conn[w], last_ping[w], now) :
                      /\ thread_conn' = [thread_conn EXCEPT ![w] = c.conn]
                      /\ last_ping' = [last_ping EXCEPT ![w] = c.last_ping]
                /\ Return(w, 200, r.value, <<"read", "get_hit">>)
           ELSE IF ~k.ok
           THEN Return(w, 400, "Invalid key", <<"read", "get_miss">>)
                /\ UNCHANGED <<thread_conn, last_ping>>
           ELSE GetConnection(w, [op |-> "read", key_path |-> key_path,
                                  key_num |-> k.out],
                              <<"read", "get_miss">>)
        /\ UNCHANGED <<histVars, store, now, deleted, fresh, pqVars>>

\* GET /read/<string>, lines 279-287: cache.get(key_path, value) comes first;
\* the path is converted only after a miss, and db_read asks for the
\* connection.
BeginRead(w, key_path) ==
    LET r == get(Cache, key_path)
        k == str_to_int64(key_path)
    IN  /\ pc[w] = "idle"
        /\ SetCache(r.cache)
        /\ rd' = [rd EXCEPT ![w] = ~r.hit /\ k.ok /\ k.out \in deleted]
        /\ IF r.hit
           THEN Return(w, 200, r.value, <<"read", "get_hit">>)
                /\ UNCHANGED <<thread_conn, last_ping>>
           ELSE IF ~k.ok
           THEN Return(w, 400, "Invalid key", <<"read", "get_miss">>)
                /\ UNCHANGED <<thread_conn, last_ping>>
           ELSE GetConnection(w, [op |-> "read", key_path |-> key_path,
                                  key_num |-> k.out],
                              <<"read", "get_miss">>)
        /\ UNCHANGED <<histVars, store, now, deleted, fresh, pqVars>>

\* DELETE /delete/<string>, lines 295-299: the path is converted and
\* db_delete asks for the connection.
BeginDelete(w, key_path) ==
    LET k == str_to_int64(key_path)
    IN  /\ pc[w] = "idle"
        /\ IF ~k.ok
           THEN Return(w, 400, "Invalid key", <<"delete">>)
                /\ UNCHANGED <<thread_conn, last_ping>>
           ELSE GetConnection(w, [op |-> "delete", key_path |-> key_path,
                                  key_num |-> k.out],
                              <<"delete">>)
        /\ UNCHANGED <<cacheVars, histVars, store, now, rd, deleted, fresh, pqVars>>

\* db_create_or_update, lines 166-186, and the test of line 274.
ExecCreate(w, res) ==
    LET r == db_create_or_update(store, req[w].key_num, req[w].value, res)
        d == IF res = "ok" THEN deleted \ {req[w].key_num} ELSE deleted
    IN  /\ pc[w] = "exec"
        /\ req[w].op = "create"
        /\ store' = r.store
        /\ thread_conn' = [thread_conn EXCEPT ![w] = ConnAfter(@, res)]
        /\ deleted' = d
        /\ rd' = RdAfter(d, IF res = "ok" THEN {req[w].key_num} ELSE {})
        /\ IF r.done
           THEN Goto(w, "cache", req[w],
                     Append(trace[w], IF res = "ok" THEN "upsert_ok" ELSE "upsert_fail"))
           ELSE Return(w, 500, "DB Error",
                       Append(trace[w], IF res = "ok" THEN "upsert_ok" ELSE "upsert_fail"))
        /\ UNCHANGED <<cacheVars, histVars, now, last_ping, fresh, pqVars>>

\* db_read, lines 193-213, and the test of line 287.
ExecRead(w, res) ==
    LET r  == db_read(store, req[w].key_num, res)
        ev == IF res # "ok" THEN "select_fail"
              ELSE IF store[req[w].key_num] = None THEN "select_none"
              ELSE "select_row"
    IN  /\ pc[w] = "exec"
        /\ req[w].op = "read"
        /\ thread_conn' = [thread_conn EXCEPT ![w] = ConnAfter(@, res)]
        /\ IF r.found
           THEN Goto(w, "cache",
                     [op |-> "read", key_path |-> req[w].key_path,
                      key_num |-> req[w].key_num, value |-> r.value],
                     Append(trace[w], ev))
           ELSE Return(w, 404, "Not found", Append(trace[w], ev))
        /\ rd' = [rd EXCEPT ![w] = @ /\ r.found]
        /\ UNCHANGED <<cacheVars, histVars, store, now, last_ping, deleted, fresh, pqVars>>

\* db_delete, lines 220-234, and the test of line 300.
ExecDelete(w, res) ==
    LET r  == db_delete(store, req[w].key_num, res)
        ev == IF res # "ok" THEN "delete_fail"
              ELSE IF store[req[w].key_num] = None THEN "delete_none"
              ELSE "delete_row"
    IN  /\ pc[w] = "exec"
        /\ req[w].op = "delete"
        /\ store' = r.store
        /\ thread_conn' = [thread_conn EXCEPT ![w] = ConnAfter(@, res)]
        /\ IF r.done
           THEN Goto(w, "cache", req[w], Append(trace[w], ev))
           ELSE Return(w, 500, "Not found", Append(trace[w], ev))
        /\ rd' = [rd EXCEPT ![w] = r.done /\ ev = "delete_row"]
        /\ UNCHANGED <<cacheVars, histVars, now, last_ping, deleted, fresh, pqVars>>

\* Mutant: the create caches whatever the store holds when the put runs.
PutCreate_StoreValue(w) ==
    LET key == to_string(req[w].key_num)
        v   == IF store[req[w].key_num] = None THEN req[w].value
               ELSE store[req[w].key_num]
        c   == put(Cache, key, v)
        d   == deleted \ {req[w].key_num}
    IN  /\ pc[w] = "cache"
        /\ req[w].op = "create"
        /\ SetCache(c)
        /\ fresh' = FreshAfter(c, key)
        /\ deleted' = d
        /\ rd' = RdAfter(d, {})
        /\ Return(w, 200, "Created", Append(trace[w], "put"))
        /\ UNCHANGED <<histVars, store, connVars, pqVars>>

\* /create, lines 274-275: cache.put(std::to_string(key_num), value).
PutCreate(w) ==
    LET key == to_string(req[w].key_num)
        c   == put(Cache, key, req[w].value)
        fr  == [FreshAfter(c, key) EXCEPT ![req[w].key_num] =
                   IF key \in CachedKeys(c.kvcache) THEN req[w].value ELSE None]
        d   == deleted \ {req[w].key_num}
    IN  /\ pc[w] = "cache"
        /\ req[w].op = "create"
        /\ SetCache(c)
        /\ fresh' = fr
        /\ deleted' = d
        /\ rd' = RdAfter(d, {})
        /\ Return(w, 200, "Created", Append(trace[w], "put"))
        /\ UNCHANGED <<histVars, store, connVars, pqVars>>

\* /read, lines 288-289: cache.put(key_path, value).
PutRead(w) ==
    LET c  == put(Cache, req[w].key_path, req[w].value)
        fr == FreshAfter(c, req[w].key_path)
    IN  /\ pc[w] = "cache"
        /\ req[w].op = "read"
        /\ SetCache(c)
        /\ fresh' = fr
        /\ rd' = [RdAfter(deleted, {}) EXCEPT ![w] = FALSE]
        /\ Return(w, 200, req[w].value, Append(trace[w], "put"))
        /\ UNCHANGED <<histVars, store, connVars, deleted, pqVars>>

\* /delete, lines 300-301: cache.remove(key_path).
RemoveDelete(w) ==
    LET c  == remove(Cache, req[w].key_path)
        fr == FreshAfter(c, None)
        d  == IF rd[w] THEN deleted \cup {req[w].key_num} ELSE deleted
    IN  /\ pc[w] = "cache"
        /\ req[w].op = "delete"
        /\ SetCache(c)
        /\ fresh' = fr
        /\ deleted' = d
        /\ rd' = [RdAfter(d, {}) EXCEPT ![w] = FALSE]
        /\ Return(w, 200, "Deleted", Append(trace[w], "remove"))
        /\ UNCHANGED <<histVars, store, connVars, pqVars>>

Next ==
    \E w \in Workers :
        \/ \E body \in CreateBodies : BeginCreate(w, body)
        \/ \E key_path \in KeyPaths : BeginRead(w, key_path)
        \/ \E key_path \in KeyPaths : BeginDelete(w, key_path)
        \/ \E res \in Results : ExecCreate(w, res)
        \/ \E res \in Results : ExecRead(w, res)
        \/ \E res \in Results : ExecDelete(w, res)
        \/ PutCreate(w)
        \/ PutRead(w)
        \/ RemoveDelete(w)

\* ------------------------------------ the connection of each thread in time
\* ConnSpec runs the db operations of the worker threads against a server
\* that goes down and comes back, connections that become invalid, and a
\* clock.  A db operation is get_connection followed, when it returned a
\* connection, by one statement; both touch only the thread's own
\* thread_conn, last_ping and libpq objects, so the operation is one step.
MaxTime == 6

\* What PQconnectdb can give: a usable connection exactly when the server is
\* up.
ConnectResults == IF server_up THEN {"ok"} ELSE {"bad", "null"}

\* What "SELECT 1" and the statements can give on the connection of w: they
\* succeed exactly when the server's end of the connection is valid.
ExecResults(al) == IF al THEN {"ok"} ELSE {"fatal", "null"}

\* What a release of a freed object (undefined behaviour) can do: nothing
\* visible, or the allocator aborts the process.
UBOutcomes(faults) == IF faults = {} THEN {"continue"} ELSE {"continue", "abort"}

DbOperation(w, cres, pres) ==
    LET r  == get_connection_run(
                  RunState(thread_conn[w], held[w], last_ping[w], pgconns),
                  now, cres, pres)
        al == IF \E i \in 1..Len(r.calls) : r.calls[i] = "PQconnectdb"
              THEN r.ret ELSE alive[w]
    IN  /\ ~crashed
        /\ calls' = [calls EXCEPT ![w] = r.calls]
        /\ held' = [held EXCEPT ![w] = r.held]
        /\ pgconns' = r.open
        /\ last_ping' = [last_ping EXCEPT ![w] = r.last]
        /\ \E ub \in UBOutcomes(r.faults) :
              /\ crashed' = (ub = "abort")
              /\ IF ub = "abort"
                 THEN /\ thread_conn' = [thread_conn EXCEPT ![w] = r.conn]
                      /\ alive' = [alive EXCEPT ![w] = al]
                      /\ outcome' = [outcome EXCEPT ![w] = "aborted"]
                 ELSE IF ~r.ret
                 THEN /\ thread_conn' = [thread_conn EXCEPT ![w] = r.conn]
                      /\ alive' = [alive EXCEPT ![w] = FALSE]
                      /\ outcome' = [outcome EXCEPT ![w] = "unavailable"]
                 ELSE \E sres \in ExecResults(al) :
                      /\ thread_conn' = [thread_conn EXCEPT ![w] = ConnAfter(r.conn, sres)]
                      /\ alive' = [alive EXCEPT ![w] = al]
                      /\ outcome' = [outcome EXCEPT ![w] =
                                        IF sres = "ok" THEN "ok" ELSE "failed"]
        /\ UNCHANGED <<cacheVars, histVars, reqVars, now, server_up>>

\* steady_clock advances by a second.
Tick ==
    /\ ~crashed
    /\ now < MaxTime
    /\ now' = now + 1
    /\ UNCHANGED <<cacheVars, histVars, reqVars, thread_conn, last_ping, pqVars>>

\* The server stops: every connection to it becomes invalid.
ServerDown ==
    /\ ~crashed
    /\ server_up
    /\ server_up' = FALSE
    /\ alive' = [w \in Workers |-> FALSE]
    /\ UNCHANGED <<cacheVars, histVars, reqVars, connVars,
                   held, pgconns, calls, outcome, crashed>>

ServerUp ==
    /\ ~crashed
    /\ ~server_up
    /\ server_up' = TRUE
    /\ UNCHANGED <<cacheVars, histVars, reqVars, connVars,
                   alive, held, pgconns, calls, outcome, crashed>>

\* The connection of w becomes invalid (closed by the server or the network)
\* while the thread is between two operations; PQstatus does not change.
Break(w) ==
    /\ ~crashed
    /\ thread_conn[w] = "OK"
    /\ alive[w]
    /\ alive' = [alive EXCEPT ![w] = FALSE]
    /\ UNCHANGED <<cacheVars, histVars, reqVars, connVars,
                   server_up, held, pgconns, calls, outcome, crashed>>

NextConn ==
    \/ \E w \in Workers :
          \E cres \in ConnectResults, pres \in ExecResults(alive[w]) :
              DbOperation(w, cres, pres)
    \/ Tick
    \/ ServerDown
    \/ ServerUp
    \/ \E w \in Workers : Break(w)

\* ------------------------------------------------ the mutex of the cache
\* LockSpec runs the threads at the grain of the mutex.  A handler is a
\* sequence of calls, each either a db operation (get_connection and a
\* statement: the thread waits on the network, for as long as it takes) or a
\* cache method.  A method is three steps: the call, the lock_guard taking
\* mtx, and the body with the release of mtx at the end of the scope.
LockKeys == {to_string(1), to_string(2), to_string(3)}

CacheOps ==
    {[op |-> "put", key |-> k, value |-> "a"] : k \in LockKeys}
        \cup {[op |-> o, key |-> k, value |-> None] :
                o \in {"get", "remove"}, k \in LockKeys}

\* db_create_or_update, db_read, db_delete: called by the handlers outside
\* any cache method.
StoreCall(w) ==
    /\ pc[w] = "idle"
    /\ pc' = [pc EXCEPT ![w] = "store"]
    /\ UNCHANGED <<cacheVars, histVars, store, connVars, req, resp, trace,
                   rd, deleted, fresh, pqVars>>

\* The round trip ends.
StoreReturn(w) ==
    /\ pc[w] = "store"
    /\ pc' = [pc EXCEPT ![w] = "idle"]
    /\ UNCHANGED <<cacheVars, histVars, store, connVars, req, resp, trace,
                   rd, deleted, fresh, pqVars>>

\* cache.put / cache.get / cache.remove is called.
CacheCall(w, o) ==
    /\ pc[w] = "idle"
    /\ pc' = [pc EXCEPT ![w] = "lock"]
    /\ req' = [req EXCEPT ![w] = o]
    /\ UNCHANGED <<cacheVars, histVars, store, connVars, resp, trace,
                   rd, deleted, fresh, pqVars>>

\* lock_guard<mutex> lock(mtx), lines 26, 41, 53: waits until mtx is free.
Lock(w) ==
    /\ pc[w] = "lock"
    /\ mtx = None
    /\ mtx' = w
    /\ pc' = [pc EXCEPT ![w] = "locked"]
    /\ UNCHANGED <<kvcache, kvmap, histVars, store, connVars, req, resp, trace,
                   rd, deleted, fresh, pqVars>>

\* Mutant: the method returns with mtx still held.
Unlock_Keep(w) ==
    LET c == IF req[w].op = "put" THEN put(Cache, req[w].key, req[w].value)
             ELSE IF req[w].op = "get" THEN get(Cache, req[w].key).cache
             ELSE remove(Cache, req[w].key)
    IN  /\ pc[w] = "locked"
        /\ mtx = w
        /\ kvcache' = Canon(c).kvcache
        /\ kvmap' = Canon(c).kvmap
        /\ mtx' = w
        /\ pc' = [pc EXCEPT ![w] = "idle"]
        /\ req' = [req EXCEPT ![w] = NoReq]
        /\ UNCHANGED <<histVars, store, connVars, resp, trace,
                       rd, deleted, fresh, pqVars>>

\* The body of the method under the lock, and the destructor of lock_guard
\* at its end (every return of put, get and remove leaves the scope).
Unlock(w) ==
    LET c == IF req[w].op = "put" THEN put(Cache, req[w].key, req[w].value)
             ELSE IF req[w].op = "get" THEN get(Cache, req[w].key).cache
             ELSE remove(Cache, req[w].key)
    IN  /\ pc[w] = "locked"
        /\ mtx = w
        /\ kvcache' = Canon(c).kvcache
        /\ kvmap' = Canon(c).kvmap
        /\ mtx' = None
        /\ pc' = [pc EXCEPT ![w] = "idle"]
        /\ req' = [req EXCEPT ![w] = NoReq]
        /\ UNCHANGED <<histVars, store, connVars, resp, trace,
                       rd, deleted, fresh, pqVars>>

NextLock ==
    \E w \in Workers :
        \/ StoreCall(w)
        \/ StoreReturn(w)
        \/ \E o \in CacheOps : CacheCall(w, o)
        \/ Lock(w)
        \/ Unlock(w)

Spec == Init /\ [][Next]_vars

CacheSpec == Init /\ [][NextCache]_vars

ConnSpec == Init /\ [][NextConn]_vars

LockSpec == Init /\ [][NextLock]_vars

\* Scheduling for termination: a thread that holds the mutex runs on to the
\* end of the method (WF), and a thread waiting for the mutex gets it if it
\* is free again and again (SF).  A store round trip may never return.
LockFairSpec ==
    /\ LockSpec
    /\ \A w \in Workers : SF_vars(Lock(w)) /\ WF_vars(Unlock(w))

\* --------------------------------------------------------------- claims
\* The list as (key, value) pairs, nodes left out.
KV(list) == [i \in 1..Len(list) |-> <<list[i].first, list[i].second>>]

Without(list, key) == SelectSeq(list, LAMBDA e : e.first # key)

Pos(order, key) == CHOOSE i \in 1..Len(order) : order[i] = key

\* The cached key whose last put or successful get is the oldest.
LRUKey ==
    CHOOSE k \in CachedKeys(kvcache) :
        \A o \in CachedKeys(kvcache) : Pos(recency, o) <= Pos(recency, k)

\* C6: the cache never holds more than capacity entries, and a put of a new
\* key into a full cache leaves exactly capacity entries.
C6_Bounded ==
    /\ [](Len(kvcache) <= capacity /\ Cardinality(DOMAIN kvmap) <= capacity)
    /\ [][(/\ lastOp'.op = "put"
           /\ lastOp'.key \notin CachedKeys(kvcache)
           /\ Len(kvcache) = capacity)
          => Len(kvcache') = capacity]_vars

C6_Witness ==
    /\ lastOp.op = "put"
    /\ ~lastOp.hit
    /\ Len(kvcache) = capacity
    /\ Len(recency) = capacity + 1

\* C7: a put of a new key into a full cache removes exactly the least
\* recently used entry and keeps the others in order; any other put removes
\* no entry but the one it overwrites.
C7_EvictsLRU ==
    [][lastOp'.op = "put" =>
        LET k == lastOp'.key
            v == lastPut'[k]
        IN  IF k \notin CachedKeys(kvcache) /\ Len(kvcache) = capacity
            THEN KV(kvcache') = <<(<<k, v>>)>> \o KV(Without(kvcache, LRUKey))
            ELSE KV(kvcache') = <<(<<k, v>>)>> \o KV(Without(kvcache, k))]_vars

C7_Witness ==
    /\ lastOp.op = "put"
    /\ ~lastOp.hit
    /\ Len(kvcache) = capacity
    /\ Len(recency) = capacity + 1
    /\ recency[Len(recency)] \notin CachedKeys(kvcache)
    /\ lastOp.key = to_string(1)

\* C8 as stated: after get(k), capacity inserts of new keys do not evict k.
C8_Original ==
    (run.key # None /\ run.n <= capacity) =>
        \E i \in 1..Len(kvcache) :
            kvcache[i].first = run.key /\ kvcache[i].second = run.val

\* C8, amended: after get(k), capacity - 1 inserts of new keys right after
\* it do not evict k, which keeps its value.
C8_Recency ==
    (run.key # None /\ run.n <= capacity - 1) =>
        \E i \in 1..Len(kvcache) :
            kvcache[i].first = run.key /\ kvcache[i].second = run.val

C8_Witness ==
    /\ run.key # None
    /\ run.n = capacity - 1
    /\ Len(kvcache) = capacity
    /\ kvcache[capacity].first = run.key

\* C9: a key is in the index iff exactly one list entry holds it, and the
\* index refers to that entry; no key is held by two entries.
C9_IndexConsistent ==
    /\ \A i, j \in 1..Len(kvcache) :
           (kvcache[i].first = kvcache[j].first \/ kvcache[i].node = kvcache[j].node)
               => i = j
    /\ DOMAIN kvmap = CachedKeys(kvcache)
    /\ \A i \in 1..Len(kvcache) : kvmap[kvcache[i].first] = kvcache[i].node

C9_Witness ==
    /\ Len(kvcache) = capacity - 1
    /\ lastOp.op = "remove"
    /\ lastOp.hit
    /\ Len(recency) = capacity + 1

\* C10: get of a present key returns the value of the latest put of the key
\* and moves its entry to the front; the other entries keep their order.
C10_GetRefreshes ==
    [][(lastOp'.op = "get" /\ lastOp'.key \in CachedKeys(kvcache)) =>
        LET k == lastOp'.key
        IN  /\ lastOp'.hit
            /\ lastOp'.out = lastPut[k]
            /\ KV(kvcache') = <<(<<k, lastPut[k]>>)>> \o KV(Without(kvcache, k))]_vars

C10_Witness ==
    /\ lastOp.op = "get"
    /\ lastOp.hit
    /\ Len(kvcache) = capacity
    /\ lastOp.out = "b"
    /\ \E i \in 1..Len(kvcache) : kvcache[i].second = "a"

\* ------------------------------------------------- claims on the server
Events(tr) == {tr[i] : i \in 1..Len(tr)}

\* The step is one of thread w, handling a request of kind op: every step of
\* a handler moves its pc or writes its response and history.
StepOf(w, op) ==
    /\ pc'[w] # pc[w] \/ resp'[w] # resp[w] \/ trace'[w] # trace[w]
    /\ trace'[w][1] = op

\* C1: a create changes the cache only by its cache.put, which comes after
\* the store confirmed the upsert; a create that fails (no connection, or the
\* store rejected the write) made no cache call and left the cache as it was.
C1_WriteThrough ==
    /\ [](\A w \in Workers :
            (trace[w] # <<>> /\ trace[w][1] = "create") =>
                /\ "put" \in Events(trace[w]) =>
                      /\ trace[w] = <<"create", "conn_ok", "upsert_ok", "put">>
                      /\ resp[w] = [code |-> 200, body |-> "Created"]
                /\ (pc[w] = "idle" /\ resp[w].code # 200) =>
                      "put" \notin Events(trace[w])
                /\ (Events(trace[w]) \cap {"conn_fail", "upsert_fail"} # {}) =>
                      (pc[w] = "idle" /\ resp[w] = [code |-> 500, body |-> "DB Error"]))
    /\ [][\A w \in Workers :
            StepOf(w, "create") =>
                /\ cacheVars' # cacheVars =>
                      (pc[w] = "cache" /\ trace[w] = <<"create", "conn_ok", "upsert_ok">>)
                /\ (pc'[w] = "idle" /\ resp'[w].code # 200) => cacheVars' = cacheVars]_vars

C1_Witness ==
    \E w1, w2 \in Workers :
        /\ pc[w1] = "idle"
        /\ trace[w1] = <<"create", "conn_ok", "upsert_fail">>
        /\ resp[w1].code = 500
        /\ pc[w2] = "idle"
        /\ trace[w2] = <<"create", "conn_fail">>
        /\ resp[w2].code = 500
        /\ kvcache # <<>>

\* C2: a delete changes the cache only by its cache.remove, which comes after
\* the store confirmed that a row was deleted; with zero rows affected, a
\* failed statement or no connection the delete reports failure and leaves
\* the cache as it was.
C2_DeleteThrough ==
    /\ [](\A w \in Workers :
            (trace[w] # <<>> /\ trace[w][1] = "delete") =>
                /\ "remove" \in Events(trace[w]) =>
                      /\ trace[w] = <<"delete", "conn_ok", "delete_row", "remove">>
                      /\ resp[w] = [code |-> 200, body |-> "Deleted"]
                /\ (Events(trace[w]) \cap {"conn_fail", "delete_fail", "delete_none"} # {}) =>
                      /\ pc[w] = "idle"
                      /\ resp[w].code = 500
                      /\ "remove" \notin Events(trace[w]))
    /\ [][\A w \in Workers :
            StepOf(w, "delete") =>
                /\ cacheVars' # cacheVars =>
                      (pc[w] = "cache" /\ trace[w] = <<"delete", "conn_ok", "delete_row">>)
                /\ (pc'[w] = "idle" /\ resp'[w].code # 200) => cacheVars' = cacheVars]_vars

C2_Witness ==
    \E w \in Workers :
        /\ pc[w] = "idle"
        /\ trace[w] = <<"delete", "conn_ok", "delete_none">>
        /\ resp[w].code = 500
        /\ kvcache # <<>>

\* C3 as stated: a read of k that begins after delete(k) returned success,
\* with no create of k upserting or returning since, is a cache miss and a
\* store miss.
C3_Original ==
    [][\A w \in Workers :
        /\ \A key_path \in KeyPaths :
              (/\ BeginRead(w, key_path)
               /\ str_to_int64(key_path).ok
               /\ str_to_int64(key_path).out \in deleted)
                  => trace'[w][2] = "get_miss"
        /\ \A res \in Results :
              (ExecRead(w, res) /\ rd[w]) =>
                  trace'[w][Len(trace'[w])] # "select_row"]_vars

\* C4 as stated: while the entry a successful create(k, v) put is in the
\* cache, a read of k is a cache hit that returns v, with no store access.
C4_Original ==
    [][\A w \in Workers, key_path \in KeyPaths :
        LET k == str_to_int64(key_path)
        IN  (BeginRead(w, key_path) /\ k.ok /\ fresh[k.out] # None) =>
                /\ pc'[w] = "idle"
                /\ trace'[w] = <<"read", "get_hit">>
                /\ resp'[w] = [code |-> 200, body |-> fresh[k.out]]]_vars

\* The outcomes of a finished read: no row for the key, or no answer from the
\* store (connection or query failed).
ReadNotFound(w) ==
    pc[w] = "idle" /\ trace[w] = <<"read", "get_miss", "conn_ok", "select_none">>

ReadUnavailable(w) ==
    /\ pc[w] = "idle"
    /\ trace[w] \in {<<"read", "get_miss", "conn_fail">>,
                     <<"read", "get_miss", "conn_ok", "select_fail">>}

\* C5 as stated: the response of a read that found no row differs from the
\* response of a read whose connection or query failed.
C5_Original ==
    \A w1, w2 \in Workers :
        (ReadNotFound(w1) /\ ReadUnavailable(w2)) => resp[w1] # resp[w2]

\* C11: a read that hits the cache (its first step is the whole request: the
\* cache.get of a cached key) returns the cached value at once: no
\* get_connection (thread_conn and last_ping stay as they were: no connect, no
\* probe) and no statement reaches the store; a read that goes on to the
\* store is one whose path was not a key of the cache.
C11_HitNoStore ==
    /\ [](\A w \in Workers :
            (trace[w] # <<>> /\ "get_hit" \in Events(trace[w])) =>
                (trace[w] = <<"read", "get_hit">> /\ pc[w] = "idle"))
    /\ [][\A w \in Workers :
            (StepOf(w, "read") /\ pc[w] = "idle") =>
                IF trace'[w][2] = "get_hit"
                THEN /\ pc'[w] = "idle"
                     /\ trace'[w] = <<"read", "get_hit">>
                     /\ \E i \in 1..Len(kvcache) :
                           /\ kvcache'[1].first = kvcache[i].first
                           /\ resp'[w] = [code |-> 200, body |-> kvcache[i].second]
                     /\ UNCHANGED <<store, connVars>>
                ELSE pc'[w] # "idle" =>
                        req'[w].key_path \notin CachedKeys(kvcache)]_vars

\* A read was served from the cache by a thread that never had a connection.
C11_Witness ==
    \E w \in Workers :
        /\ pc[w] = "idle"
        /\ trace[w] = <<"read", "get_hit">>
        /\ resp[w].code = 200
        /\ resp[w].body \in Values
        /\ thread_conn[w] = "NULL"

\* C12: a read that missed the cache and got a connection selects the row
\* (unless the statement itself fails).  With a row, it goes on to cache.put(key_path, value of the row), which
\* leaves that entry at the head of the list, and only then returns 200 with
\* the value; with no row it returns 404 and none of its steps changed the
\* list or the index.
C12_ReadPopulates ==
    /\ [](\A w \in Workers :
            (trace[w] # <<>> /\ trace[w][1] = "read") =>
                /\ "put" \in Events(trace[w]) =>
                      /\ trace[w] = <<"read", "get_miss", "conn_ok", "select_row", "put">>
                      /\ resp[w].code = 200
                /\ ("select_row" \in Events(trace[w]) /\ pc[w] = "idle") =>
                      "put" \in Events(trace[w])
                /\ (pc[w] = "exec") => trace[w] = <<"read", "get_miss", "conn_ok">>)
    /\ [][\A w \in Workers :
            StepOf(w, "read") =>
                /\ (pc[w] = "exec" /\ trace'[w][4] # "select_fail") =>
                      IF store[req[w].key_num] # None
                      THEN /\ pc'[w] = "cache"
                           /\ req'[w].key_path = req[w].key_path
                           /\ req'[w].value = store[req[w].key_num]
                           /\ trace'[w][4] = "select_row"
                      ELSE /\ pc'[w] = "idle"
                           /\ resp'[w] = [code |-> 404, body |-> "Not found"]
                           /\ trace'[w][4] = "select_none"
                /\ (pc[w] = "cache") =>
                      /\ kvcache' # <<>>
                      /\ kvcache'[1].first = req[w].key_path
                      /\ kvcache'[1].second = req[w].value
                      /\ Len(kvcache') <= capacity
                      /\ pc'[w] = "idle"
                      /\ resp'[w] = [code |-> 200, body |-> req[w].value]
                /\ (pc[w] # "cache" /\ trace'[w][2] = "get_miss") =>
                      cacheVars' = cacheVars]_vars

\* One read found the row and put it at the head of the list; another found
\* no row while the cache was not empty.
C12_Witness ==
    \E w1, w2 \in Workers :
        /\ pc[w1] = "idle"
        /\ trace[w1] = <<"read", "get_miss", "conn_ok", "select_row", "put">>
        /\ kvcache # <<>>
        /\ kvcache[1].second = resp[w1].body
        /\ pc[w2] = "idle"
        /\ trace[w2] = <<"read", "get_miss", "conn_ok", "select_none">>
        /\ resp[w2].code = 404

\* The canonical form of a key text: the decimal text of the integer it
\* parses to.
IsCanonical(key) ==
    str_to_int64(key).ok /\ to_string(str_to_int64(key).out) = key

\* C13 as stated: every key in the cache, and every key a read or a delete
\* under way passed or will pass to cache.get, cache.put or cache.remove, is
\* the canonical text of its integer key; no two cache keys stand for the
\* same integer.
C13_Original ==
    /\ \A key \in CachedKeys(kvcache) : IsCanonical(key)
    /\ \A w \in Workers :
          (pc[w] # "idle" /\ req[w].op \in {"read", "delete"}) =>
              req[w].key_path = to_string(req[w].key_num)
    /\ \A i, j \in 1..Len(kvcache) :
          (str_to_int64(kvcache[i].first) = str_to_int64(kvcache[j].first)) => i = j

\* Both threads ended a create with success.
BothCreated ==
    \A w \in Workers :
        pc[w] = "idle" /\ trace[w] = <<"create", "conn_ok", "upsert_ok", "put">>

\* The value the cache holds for key, None when it holds none.
CachedValue(key) ==
    IF key \in CachedKeys(kvcache)
    THEN (CHOOSE e \in {kvcache[i] : i \in 1..Len(kvcache)} : e.first = key).second
    ELSE None

\* C18: the upsert and the cache.put of a create are two steps with nothing
\* tying them together: each upsert leaves its own value in the store and
\* each cache.put leaves its own value in the cache, whatever the store holds
\* by then.  So of two concurrent creates of a key the store keeps the value
\* of the upsert that ran last and the cache the value of the put that ran
\* last.
C18_LastPutWins ==
    [][\A w \in Workers :
        StepOf(w, "create") =>
            /\ (pc[w] = "exec" /\ trace'[w][3] = "upsert_ok") =>
                  /\ store'[req[w].key_num] = req[w].value
                  /\ cacheVars' = cacheVars
                  /\ pc'[w] = "cache"
            /\ (pc[w] = "cache") =>
                  /\ kvcache'[1].first = to_string(req[w].key_num)
                  /\ kvcache'[1].second = req[w].value
                  /\ \A i \in 2..Len(kvcache') :
                        kvcache'[i].first # to_string(req[w].key_num)
                  /\ store' = store
                  /\ resp'[w] = [code |-> 200, body |-> "Created"]]_vars

\* Both creates of key 1 returned success; the store holds "a" (its upsert
\* was the last) and the cache holds "b" (its put was the last).
C18_Witness ==
    /\ BothCreated
    /\ store[1] = "a"
    /\ CachedValue(to_string(1)) = "b"

\* C18, the other commit order: the store holds "b" and the cache "a".
C18_OtherOrder ==
    /\ BothCreated
    /\ store[1] = "b"
    /\ CachedValue(to_string(1)) = "a"

\* ----------------------------------------------- claims on the connection
\* How often a libpq call occurs among the calls of one get_connection.
NCalls(c, name) == Cardinality({i \in 1..Len(c) : c[i] = name})

\* C14: one get_connection calls PQconnectdb at most once: once when the
\* thread has no connection or one whose status is not CONNECTION_OK, once
\* after a failed ping, never otherwise; when that one attempt fails the call
\* returns nullptr (the operation is unavailable) with no second attempt.
C14_OneAttempt ==
    /\ [](\A w \in Workers :
            /\ NCalls(calls[w], "PQconnectdb") <= 1
            /\ outcome[w] = "unavailable" =>
                  (NCalls(calls[w], "PQconnectdb") = 1 /\ thread_conn[w] = "NULL"))
    /\ [][\A w \in Workers : \A cres \in ConnectResults, pres \in ExecResults(alive[w]) :
            DbOperation(w, cres, pres) =>
                /\ NCalls(calls'[w], "PQconnectdb") =
                      IF \/ thread_conn[w] # "OK"
                         \/ (now - last_ping[w] >= 5 /\ pres # "ok")
                      THEN 1 ELSE 0
                /\ (NCalls(calls'[w], "PQconnectdb") = 1 /\ cres # "ok") =>
                      outcome'[w] = "unavailable"]_vars

\* A ping failed, the one reconnection failed, and the operation was
\* unavailable.
C14_Witness ==
    \E w \in Workers :
        /\ outcome[w] = "unavailable"
        /\ calls[w] = <<"PQexec", "PQclear", "PQfinish", "PQconnectdb", "PQfinish">>
        /\ thread_conn[w] = "NULL"

\* C15: a get_connection of a thread whose connection is CONNECTION_OK
\* pings ("SELECT 1") exactly when at least 5 seconds passed since last_ping.
\* When the ping succeeds the same PGconn is returned and last_ping becomes
\* the time of this call; when the interval has not passed the same PGconn
\* is returned, nothing is called and last_ping stays.
C15_ProbeWhenDue ==
    [][\A w \in Workers : \A cres \in ConnectResults, pres \in ExecResults(alive[w]) :
        (DbOperation(w, cres, pres) /\ thread_conn[w] = "OK") =>
            IF now - last_ping[w] >= 5
            THEN /\ NCalls(calls'[w], "PQexec") = 1
                 /\ calls'[w][1] = "PQexec"
                 /\ pres = "ok" =>
                       /\ calls'[w] = <<"PQexec", "PQclear">>
                       /\ held'[w] = held[w]
                       /\ pgconns' = pgconns
                       /\ last_ping'[w] = now
                       /\ outcome'[w] # "unavailable"
            ELSE /\ calls'[w] = <<>>
                 /\ held'[w] = held[w]
                 /\ pgconns' = pgconns
                 /\ last_ping'[w] = last_ping[w]
                 /\ outcome'[w] # "unavailable"]_vars

\* A ping was made exactly 5 seconds after the connection was opened and
\* succeeded: the connection is the same and last_ping is the current time.
C15_Witness ==
    \E w \in Workers :
        /\ calls[w] = <<"PQexec", "PQclear">>
        /\ now = 5
        /\ last_ping[w] = 5
        /\ thread_conn[w] = "OK"
        /\ outcome[w] = "ok"

\* C16 as stated: a db operation of a thread whose connection became invalid
\* (PQstatus still CONNECTION_OK) and whose interval has passed pings once,
\* reconnects once, and succeeds when the server is up; when the reconnection
\* fails the operation is unavailable, every later operation is unavailable
\* while no connection can be opened, and the first operation made with the
\* server up again succeeds.
C16_Original ==
    [][\A w \in Workers :
        \A cres \in ConnectResults, pres \in ExecResults(alive[w]) :
            DbOperation(w, cres, pres) =>
                /\ (thread_conn[w] = "OK" /\ ~alive[w] /\ now - last_ping[w] >= 5) =>
                      /\ NCalls(calls'[w], "PQexec") = 1
                      /\ NCalls(calls'[w], "PQconnectdb") = 1
                      /\ IF server_up
                         THEN outcome'[w] = "ok" /\ thread_conn'[w] = "OK" /\ alive'[w]
                         ELSE outcome'[w] = "unavailable" /\ thread_conn'[w] = "NULL"
                /\ (thread_conn[w] = "NULL") =>
                      IF server_up
                      THEN outcome'[w] = "ok" /\ thread_conn'[w] = "OK" /\ alive'[w]
                      ELSE outcome'[w] = "unavailable" /\ thread_conn'[w] = "NULL"]_vars

\* The PGconn objects the threads point to.
HeldConns == {held[w] : w \in Workers} \ {0}

\* C17: the open PGconn objects are exactly those the threads' thread_conn
\* point to, one at most per thread and none pointed to by two threads, so
\* there are never more of them than threads; and a get_connection that opens
\* a connection while the thread has one calls PQfinish on the old one just
\* before PQconnectdb.
C17_OnePerWorker ==
    /\ [](/\ pgconns = HeldConns
          /\ Cardinality(pgconns) <= Cardinality(Workers)
          /\ \A w1, w2 \in Workers :
                (w1 # w2 /\ held[w1] # 0) => held[w1] # held[w2]
          /\ \A w \in Workers : (held[w] = 0) <=> (thread_conn[w] = "NULL"))
    /\ [][\A w \in Workers : \A cres \in ConnectResults, pres \in ExecResults(alive[w]) :
            (DbOperation(w, cres, pres) /\ held[w] # 0) =>
                \A i \in 1..Len(calls'[w]) :
                    calls'[w][i] = "PQconnectdb" =>
                        (i > 1 /\ calls'[w][i - 1] = "PQfinish")]_vars

\* Both threads hold a connection, and one of them replaced a connection
\* whose status had gone bad.
C17_Witness ==
    \E w1, w2 \in Workers :
        /\ w1 # w2
        /\ held[w1] # 0
        /\ held[w2] # 0
        /\ calls[w1] = <<"PQfinish", "PQconnectdb">>
        /\ thread_conn[w1] = "OK"

\* C20 as stated: on every path through get_connection the PGresult of the
\* ping, when there is one, is cleared exactly once, every PGconn that stops
\* being the thread's connection is finished exactly once (none stays open
\* unreferenced), and the process is not brought down by a release or use of
\* a released object.
C20_Original ==
    /\ [](~crashed /\ pgconns = HeldConns)
    /\ [][\A w \in Workers :
            \A cres \in ConnectResults, pres \in ExecResults(alive[w]) :
                DbOperation(w, cres, pres) =>
                    /\ NCalls(calls'[w], "PQclear") =
                          IF NCalls(calls'[w], "PQexec") = 1 /\ pres # "null"
                          THEN 1 ELSE 0
                    /\ NCalls(calls'[w], "PQfinish") =
                          IF NCalls(calls'[w], "PQconnectdb") = 1
                          THEN (IF held[w] # 0 THEN 1 ELSE 0)
                               + (IF cres = "bad" THEN 1 ELSE 0)
                          ELSE 0]_vars

====
